---- MODULE Spec2Model ----
(***************************************************************************)
(* Model of the two meal-recommendation services of the repository:       *)
(*   - the catalog & filter service (src/backend/app.py, Flask + ORM)      *)
(*   - the plan-generation service (src/backend/main_app.py, FastAPI)      *)
(* Each HTTP handler is one action; the stores are read-only state.        *)
(***************************************************************************)
EXTENDS Integers, Sequences, FiniteSets, TLC

\* ------------------------------------------------------------------------
\* Python floats (IEEE-754 binary64), as far as this code computes with
\* them: non-negative finite values below 2^26.  A value is
\*   ip + hi * 2^-26 + lo * 2^-52   with 0 <= hi, lo < 2^26,
\* so that every intermediate result stays within TLC's integers.

\* significand width of a binary64
DoublePrecision == 53

RECURSIVE Pow2(_)
Pow2(n) == IF n = 0 THEN 1 ELSE 2 * Pow2(n - 1)

\* the DoublePrecision - 1 fraction bits of a value in [1, 2) fill the two
\* limbs hi and lo
LimbBits == (DoublePrecision - 1) \div 2

Half == Pow2(LimbBits)

\* floor(log2(n)) for n >= 1
RECURSIVE Log2(_)
Log2(n) == IF n <= 1 THEN 0 ELSE 1 + Log2(n \div 2)

FInt(n) == [ip |-> n, hi |-> 0, lo |-> 0]

\* carries of lo into hi and of hi into ip
Carried(ip, hi, lo) ==
  LET h == hi + lo \div Half
  IN [ip |-> ip + h \div Half, hi |-> h % Half, lo |-> lo % Half]

\* x * 2^n for n <= 3, exact
Shl(x, n) == Carried(x.ip * Pow2(n), x.hi * Pow2(n), x.lo * Pow2(n))

\* x + y, exact
AddExact(x, y) == Carried(x.ip + y.ip, x.hi + y.hi, x.lo + y.lo)

\* round-to-nearest, ties-to-even, of an exact value in [1, 2^26) to the
\* DoublePrecision significant bits of a binary64
RoundDouble(x) ==
  LET unit == Pow2(Log2(x.ip) + 1 + 2 * LimbBits - DoublePrecision)
      kept == x.lo \div unit
      rest == x.lo % unit
      up   == \/ 2 * rest > unit
              \/ 2 * rest = unit /\ kept % 2 = 1
  IN Carried(x.ip, x.hi, (IF up THEN kept + 1 ELSE kept) * unit)

\* float * float, float + float, float +- int, as Python evaluates them
FMul10(w)     == RoundDouble(AddExact(Shl(w, 3), Shl(w, 1)))
FAdd(x, y)    == RoundDouble(AddExact(x, y))
FSubInt(x, n) == RoundDouble([x EXCEPT !.ip = @ - n])
FAddInt(x, n) == RoundDouble([x EXCEPT !.ip = @ + n])

\* x <= y on floats
FLe(x, y) ==
  \/ x.ip < y.ip
  \/ x.ip = y.ip /\ x.hi < y.hi
  \/ x.ip = y.ip /\ x.hi = y.hi /\ x.lo <= y.lo

\* int(x) of a non-negative float: truncation
PyInt(x) == x.ip

\* 6.25 * 175 = 1093.75, exact in binary64
HeightTerm == [ip |-> 1093, hi |-> 3 * (Half \div 4), lo |-> 0]

\* 5 * 30
AgeTerm == 5 * 30

SexTerm == 5

GoalDelta == 500

RMR(weight_kg) ==
  FAddInt(FSubInt(FAdd(FMul10(weight_kg), HeightTerm), AgeTerm), SexTerm)

compute_target_calories(weight_kg, goal) ==
  LET rmr == RMR(weight_kg)
  IN IF goal = "gain" THEN PyInt(FAddInt(rmr, GoalDelta))
                      ELSE PyInt(FSubInt(rmr, GoalDelta))

\* ------------------------------------------------------------------------
\* Bounds of the model

\* rows of the one group of identical rows a store may hold
BulkRows == 31

\* longest tail of free text around the generated answer
MaxTail == 2

\* ------------------------------------------------------------------------
\* JSON values of a request body, and Python's view of them

JNull     == [t |-> "null", n |-> FInt(0), s |-> ""]
JNum(f)   == [t |-> "num",  n |-> f,       s |-> ""]
JStr(str) == [t |-> "str",  n |-> FInt(0), s |-> str]

\* float(v): [ok, val] or the exception's text
PyFloat(v) ==
  CASE v.t = "num"  -> [ok |-> TRUE, val |-> v.n, err |-> ""]
    [] v.t = "null" -> [ok |-> FALSE, val |-> FInt(0),
          err |-> "float() argument must be a string or a real number, not 'NoneType'"]
    [] v.t = "str" /\ v.s = "12.5" ->
          [ok |-> TRUE, val |-> [ip |-> 12, hi |-> Half \div 2, lo |-> 0], err |-> ""]
    [] OTHER -> [ok |-> FALSE, val |-> FInt(0),
          err |-> "could not convert string to float"]

\* str.lower() on the strings of the model
Lower(str) ==
  CASE str = "Gain" -> "gain"
    [] str = "LOSE" -> "lose"
    [] OTHER -> str

\* v.lower(): only a str has the method
PyLower(v) ==
  CASE v.t = "str"  -> [ok |-> TRUE, val |-> Lower(v.s), err |-> ""]
    [] v.t = "null" -> [ok |-> FALSE, val |-> "",
          err |-> "'NoneType' object has no attribute 'lower'"]
    [] OTHER -> [ok |-> FALSE, val |-> "",
          err |-> "'int' object has no attribute 'lower'"]

\* bool(v)
Truthy(v) ==
  CASE v.t = "null" -> FALSE
    [] v.t = "num"  -> v.n # FInt(0)
    [] OTHER -> v.s # ""

\* ------------------------------------------------------------------------
\* Tables.  A table is a set of groups [row, copies]: `copies` rows that
\* agree on every modelled column (they differ in id and name only).

Take(T, g) ==
  (T \ {g}) \cup (IF g.copies > 1 THEN {[g EXCEPT !.copies = @ - 1]} ELSE {})

\* every list of min(n, |T|) rows of T, in every order: what a query
\* with LIMIT n and no (or a random) ordering may return
RECURSIVE Arrangements(_, _)
Arrangements(T, n) ==
  IF n = 0 \/ T = {} THEN {<<>>}
  ELSE UNION {{<<g.row>> \o s : s \in Arrangements(Take(T, g), n - 1)} : g \in T}

RECURSIVE Rows(_)
Rows(T) ==
  IF T = {} THEN 0
  ELSE LET g == CHOOSE h \in T : TRUE IN g.copies + Rows(T \ {g})

\* the table holding `bulk` (a set of at most one row) BulkRows times and
\* `single` (a set of at most one row) once
Table(bulk, single) ==
  IF bulk = single
  THEN {[row |-> r, copies |-> BulkRows + 1] : r \in bulk}
  ELSE {[row |-> r, copies |-> BulkRows] : r \in bulk}
       \cup {[row |-> r, copies |-> 1] : r \in single}

AtMostOne(S) == {{}} \cup {{e} : e \in S}

\* ========================================================================
\* State

VARIABLES
  restaurants,  \* catalog store: table restaurants, a set of [id, name]
  menu_items,   \* catalog store: table menu_items
  restaurant,   \* plan store: table restaurant, a set of [id, name]
  menu_item,    \* plan store: table menu_item
  req,          \* the request handled last
  resp,         \* the response to it
  opened,       \* sessions / connections acquired while handling it
  closed,       \* ... and closed by the time the handler finished
  queried,      \* the handler's query: "no" (not run), "raised" or "returned"
  items,        \* the handler's local `items`: the rows the query returned
  target_cal,   \* the handler's local `target_cal` (0: not computed)
  hfLog         \* calls made to the inference collaborator while handling it

vars == <<restaurants, menu_items, restaurant, menu_item,
          req, resp, opened, closed, queried, items, target_cal, hfLog>>

stores == <<restaurants, menu_items, restaurant, menu_item>>

\* ------------------------------------------------------------------------
\* Responses

ItemsResponse(rendered) ==
  [status |-> 200, kind |-> "items", items |-> rendered,
   email_body |-> <<>>, detail |-> ""]

RestaurantsResponse(rs) ==
  [status |-> 200, kind |-> "restaurants", items |-> rs,
   email_body |-> <<>>, detail |-> ""]

EmailResponse(text) ==
  [status |-> 200, kind |-> "email", items |-> <<>>,
   email_body |-> text, detail |-> ""]

\* abort(status, detail) / raise HTTPException(status, detail)
ErrorResponse(status, detail) ==
  [status |-> status, kind |-> "error", items |-> <<>>,
   email_body |-> <<>>, detail |-> detail]

\* an exception no handler catches: the framework answers 500
Unhandled == ErrorResponse(500, "Internal Server Error")

\* ========================================================================
\* Catalog & filter service (app.py)

RestaurantIds == {1, 2}

\* MenuItem.restaurant_id is nullable: {} is NULL, {n} is the id n
CatalogRows ==
  [restaurant_id : AtMostOne(RestaurantIds),
   price_usd     : {FInt(10), FInt(15)},
   calories      : {848, 1348, 1349, 2249}]

CatalogTables ==
  {Table(b, s) : b \in AtMostOne(CatalogRows), s \in AtMostOne(CatalogRows)}

\* weight_kg values a client may send: 70, 60.025 and 60.02499999999998
Weights ==
  {FInt(70),
   [ip |-> 60, hi |-> 1677721, lo |-> 40265312],
   [ip |-> 60, hi |-> 1677721, lo |-> 40265216]}

NoFields ==
  [tall_cm |-> JNull, weight_kg |-> JNull, budget_usd |-> JNull,
   goal |-> JNull, restaurant_id |-> JNull]

\* well-formed bodies: every required field a number, goal a string
GoodFields ==
  [tall_cm       : {JNum(FInt(175))},
   weight_kg     : {JNum(w) : w \in Weights},
   budget_usd    : {JNum(FInt(10)), JNum(FInt(15))},
   goal          : {JStr("gain"), JStr("lose")},
   restaurant_id : {JNull, JNum(FInt(0)), JNum(FInt(1))}]

BaseFields ==
  [tall_cm |-> JNum(FInt(175)), weight_kg |-> JNum(FInt(70)),
   budget_usd |-> JNum(FInt(15)), goal |-> JStr("lose"),
   restaurant_id |-> JNull]

\* well-formed bodies in other spellings: a goal in capitals, a number
\* sent as a string
OtherFields ==
  {[BaseFields EXCEPT !.goal = JStr("Gain")],
   [BaseFields EXCEPT !.goal = JStr("LOSE")],
   [BaseFields EXCEPT !.budget_usd = JStr("12.5")]}

\* bodies with one field missing, of the wrong type or out of range
BadFields ==
  {[BaseFields EXCEPT ![k] = v] :
      k \in {"tall_cm", "weight_kg", "budget_usd"}, v \in {JNull, JStr("abc")}}
  \cup {[BaseFields EXCEPT !.goal = v] :
      v \in {JNull, JNum(FInt(5)), JStr("maybe"), JStr("")}}

CatalogBodies ==
  {[kind |-> "object", f |-> f] : f \in GoodFields \cup OtherFields \cup BadFields}
  \cup {[kind |-> k, f |-> NoFields] : k \in {"none", "empty", "array"}}

\* request.get_json(): the parsed body, None, or the framework's own
\* 400 / 415 when there is no JSON body to parse (version dependent)
GetJsonOutcomes(body) ==
  IF body.kind = "none" THEN {"None", "400", "415"} ELSE {"payload"}

GoalMessage == "Goal must be 'gain' or 'lose'"

InvalidPayload(e) == ErrorResponse(400, "Invalid payload: " \o e)

\* lines 87-101: the body's fields converted and checked in order.
\* [ok |-> TRUE, ...the converted fields] or [ok |-> FALSE, resp].
ParsedOk(w, b, g, r) ==
  [ok |-> TRUE, weight_kg |-> w, budget_usd |-> b, goal |-> g,
   restaurant_id |-> r, resp |-> Unhandled]

ParsedBad(r) ==
  [ok |-> FALSE, weight_kg |-> FInt(0), budget_usd |-> FInt(0), goal |-> "",
   restaurant_id |-> JNull, resp |-> r]

GoalAllowedAny(goal) == TRUE

GoalAllowed(goal) == goal \in {"gain", "lose"}

ParsePayload(body, gj) ==
  IF gj = "400" THEN ParsedBad(ErrorResponse(400, "Bad Request"))
  ELSE IF gj = "415" THEN ParsedBad(ErrorResponse(415, "Unsupported Media Type"))
  ELSE IF gj = "None" \/ body.kind = "empty"
    THEN ParsedBad(ErrorResponse(400, "Missing JSON payload"))
  ELSE IF body.kind = "array"
    THEN ParsedBad(InvalidPayload("'list' object has no attribute 'get'"))
  ELSE
    LET tall   == PyFloat(body.f.tall_cm)
        weight == PyFloat(body.f.weight_kg)
        budget == PyFloat(body.f.budget_usd)
        goal   == PyLower(body.f.goal)
    IN IF ~tall.ok THEN ParsedBad(InvalidPayload(tall.err))
       ELSE IF ~weight.ok THEN ParsedBad(InvalidPayload(weight.err))
       ELSE IF ~budget.ok THEN ParsedBad(InvalidPayload(budget.err))
       ELSE IF ~goal.ok THEN ParsedBad(InvalidPayload(goal.err))
       ELSE IF ~GoalAllowed(goal.val)
         THEN ParsedBad(ErrorResponse(400, GoalMessage))
       ELSE ParsedOk(weight.val, budget.val, goal.val, body.f.restaurant_id)

\* MenuItem.restaurant_id == restaurant_id (NULL equals nothing)
RestaurantMatches(row, rid) ==
  rid.t = "num" /\ rid.n = FInt(rid.n.ip) /\ row.restaurant_id = {rid.n.ip}

\* line 110: if restaurant_id: q = q.filter(...)
RestaurantFilter(row, rid) == Truthy(rid) => RestaurantMatches(row, rid)

CalorieBand == 200

\* lines 115-119
BracketNoBudget(row, budget_usd, target) ==
  /\ row.calories <= target + CalorieBand
  /\ row.calories >= target - CalorieBand

Bracket(row, budget_usd, target) ==
  /\ FLe(row.price_usd, budget_usd)
  /\ row.calories <= target + CalorieBand
  /\ row.calories >= target - CalorieBand

\* line 121: q.limit(10)
CatalogLimit == 10

Query(table, rid, budget_usd, target) ==
  {g \in table : /\ RestaurantFilter(g.row, rid)
                 /\ Bracket(g.row, budget_usd, target)}

\* i.restaurant: the owning Restaurant, or None
Owner(row) == {r \in restaurants : row.restaurant_id = {r.id}}

\* lines 122-134: None.name raises AttributeError
Rendered(row) ==
  [calories |-> row.calories, price_usd |-> row.price_usd,
   restaurant_id |-> row.restaurant_id,
   restaurant_name |-> (CHOOSE r \in Owner(row) : TRUE).name]

Renders(rows) == \A i \in 1..Len(rows) : Owner(rows[i]) # {}

\* session.close() is the statement after the list is built (line 135):
\* no exception path runs it
ClosedAfter(raised) == IF raised THEN 0 ELSE 1

\* no request is being handled
NoRequest == [op |-> "none", body |-> [kind |-> "none", f |-> NoFields]]

NoResponse == ErrorResponse(0, "")

\* POST /recommend, lines 75-136.  dbFails: the query itself raises.
app_recommend ==
  \E body \in CatalogBodies : \E gj \in GetJsonOutcomes(body) :
    LET p == ParsePayload(body, gj)
    IN /\ req = NoRequest
       /\ req' = [op |-> "app.recommend", body |-> body]
       /\ hfLog' = <<>>
       /\ UNCHANGED stores
       /\ IF ~p.ok
          THEN /\ resp' = p.resp
               /\ opened' = 0 /\ closed' = 0
               /\ queried' = "no" /\ items' = <<>> /\ target_cal' = 0
          ELSE LET target == compute_target_calories(p.weight_kg, p.goal)
                   q == Query(menu_items, p.restaurant_id, p.budget_usd, target)
               IN \E dbFails \in BOOLEAN :
                  \E rows \in IF dbFails THEN {<<>>} ELSE Arrangements(q, CatalogLimit) :
                    LET raised == dbFails \/ ~Renders(rows)
                    IN /\ target_cal' = target
                       /\ opened' = 1
                       /\ queried' = IF dbFails THEN "raised" ELSE "returned"
                       /\ items' = rows
                       /\ closed' = ClosedAfter(raised)
                       /\ resp' = IF raised THEN Unhandled
                                  ELSE ItemsResponse(
                                         [i \in 1..Len(rows) |-> Rendered(rows[i])])

\* GET /restaurants, lines 63-72
get_restaurants ==
  \E dbFails \in BOOLEAN :
    /\ req = NoRequest
    /\ req' = [op |-> "app.get_restaurants", body |-> [kind |-> "none", f |-> NoFields]]
    /\ hfLog' = <<>>
    /\ UNCHANGED stores
    /\ opened' = 1
    /\ queried' = IF dbFails THEN "raised" ELSE "returned"
    /\ items' = <<>>
    /\ target_cal' = 0
    /\ closed' = ClosedAfter(dbFails)
    /\ resp' = IF dbFails THEN Unhandled ELSE RestaurantsResponse(restaurants)

\* ========================================================================
\* Plan-generation service (main_app.py)

\* menu_item.restaurant_id: {} is NULL, {n} is the id n
PlanRows ==
  [restaurant_id : AtMostOne({1}),
   item_en       : {"Koshari"},
   item_ar       : {"kushari"},
   price_egp     : {30, 60}]

PlanTables ==
  {Table(b, s) : b \in AtMostOne(PlanRows), s \in AtMostOne(PlanRows)}

\* lines 22-26: the profiles the validators admit
UserProfile ==
  [height_cm        : {175},
   weight_kg        : {70},
   daily_budget_egp : {20, 30, 60},
   goal             : {"lose_weight", "gain_weight"}]

FetchLimitOff == BulkRows + 2

\* line 43: LIMIT 30
FetchLimit == 30

\* lines 38-41: the rows of menu_item JOIN restaurant with price_egp <= budget,
\* as the selected columns (r.name, m.item_en, m.item_ar, m.price_egp)
AffordableAny(budget) ==
  {[row |-> [restaurant |-> r.name, en |-> g.row.item_en, ar |-> g.row.item_ar,
             price |-> g.row.price_egp],
    copies |-> g.copies] :
     <<g, r>> \in {gr \in menu_item \X restaurant :
                     gr[1].row.restaurant_id = {gr[2].id}}}

Affordable(budget) ==
  {[row |-> [restaurant |-> r.name, en |-> g.row.item_en, ar |-> g.row.item_ar,
             price |-> g.row.price_egp],
    copies |-> g.copies] :
     <<g, r>> \in {gr \in menu_item \X restaurant :
                     /\ gr[1].row.restaurant_id = {gr[2].id}
                     /\ gr[1].row.price_egp <= budget}}

\* lines 34-52: ORDER BY random() LIMIT 30
fetch_affordable_items(budget) == Arrangements(Affordable(budget), FetchLimit)

\* A Python str is a sequence of tokens: the whitespace characters " " and
\* "\n" one by one, every other run of text as one token.
Whitespace == {" ", "\n"}

\* f"{x}" of a float with an integral value, f"{x:.2f}"
FloatRepr(n) == ToString(n) \o ".0"
Fmt2f(n) == ToString(n) \o ".00"

Instruction == "Using the table above, propose a full-day meal plan ..."

RECURSIVE Join(_)
Join(lines) ==
  IF Len(lines) = 0 THEN <<>>
  ELSE IF Len(lines) = 1 THEN <<lines[1]>>
  ELSE <<lines[1], "\n">> \o Join(Tail(lines))

\* lines 54-73
build_prompt(profile, rows) ==
  LET profile_line ==
        "Height: " \o ToString(profile.height_cm) \o " cm, Weight: "
        \o FloatRepr(profile.weight_kg) \o " kg, Budget: "
        \o FloatRepr(profile.daily_budget_egp) \o " EGP per day, Goal: "
        \o (IF profile.goal = "lose_weight" THEN "lose weight" ELSE "gain weight")
        \o "."
      table ==
        <<"| Restaurant | Item (EN) | Item (AR) | Price (EGP) |",
          "|------------|-----------|-----------|------------|">>
        \o [i \in 1..Len(rows) |->
              "| " \o rows[i].restaurant \o " | " \o rows[i].en \o " | "
              \o rows[i].ar \o " | " \o Fmt2f(rows[i].price) \o " |"]
  IN <<profile_line, "\n", "\n">> \o Join(table) \o <<"\n", "\n", Instruction>>

\* what the inference collaborator may answer to one POST
HFStatuses == {200, 302, 404, 429, 500, 503}

RECURSIVE SeqsUpTo(_, _)
SeqsUpTo(S, n) ==
  IF n = 0 THEN {<<>>}
  ELSE LET shorter == SeqsUpTo(S, n - 1)
       IN shorter \cup {<<c>> \o s : c \in S, s \in {u \in shorter : Len(u) = n - 1}}

Front(s) == SubSeq(s, 1, Len(s) - 1)

\* generated texts: the prompt, the prompt short of its last token or nothing,
\* after at most one word and before at most MaxTail tokens
GeneratedTexts(prompt) ==
  {pre \o mid \o suf :
     pre \in SeqsUpTo({"Sure"}, 1),
     mid \in {<<>>, prompt, Front(prompt)},
     suf \in SeqsUpTo(Whitespace \cup {"Plan"}, MaxTail)}

\* answers of the collaborator: a status and, with a 2xx, either a body of
\* the expected shape [{"generated_text": ...}] or some other body;
\* "timeout" is no answer within the 30 s timeout
HFAnswers(prompt) ==
  {[status |-> s, shape |-> "none", text |-> <<>>] : s \in HFStatuses \ {200}}
  \cup {[status |-> 0, shape |-> "timeout", text |-> <<>>]}
  \cup {[status |-> 200, shape |-> "other", text |-> <<>>]}
  \cup {[status |-> 200, shape |-> "generated", text |-> x] : x \in GeneratedTexts(prompt)}

QuotaMessage == "HF free-tier token quota exceeded"

\* lines 82-90: [ok, text] or the response the raised exception becomes
call_hf_passthrough(answer) ==
  IF answer.shape = "timeout" THEN [ok |-> FALSE, text |-> <<>>, resp |-> Unhandled]
  ELSE IF answer.status \div 100 # 2
    THEN [ok |-> FALSE, text |-> <<>>,
          resp |-> ErrorResponse(answer.status, "upstream failure")]
  ELSE IF answer.shape # "generated"
    THEN [ok |-> FALSE, text |-> <<>>, resp |-> Unhandled]
  ELSE [ok |-> TRUE, text |-> answer.text, resp |-> Unhandled]

call_hf_no_quota(answer) ==
  IF answer.shape = "timeout" THEN [ok |-> FALSE, text |-> <<>>, resp |-> Unhandled]
  ELSE IF answer.status \div 100 # 2
    THEN [ok |-> FALSE, text |-> <<>>, resp |-> Unhandled]
  ELSE IF answer.shape # "generated"
    THEN [ok |-> FALSE, text |-> <<>>, resp |-> Unhandled]
  ELSE [ok |-> TRUE, text |-> answer.text, resp |-> Unhandled]

call_hf(answer) ==
  IF answer.shape = "timeout" THEN [ok |-> FALSE, text |-> <<>>, resp |-> Unhandled]
  ELSE IF answer.status = 429
    THEN [ok |-> FALSE, text |-> <<>>, resp |-> ErrorResponse(429, QuotaMessage)]
  ELSE IF answer.status \div 100 # 2            \* raise_for_status()
    THEN [ok |-> FALSE, text |-> <<>>, resp |-> Unhandled]
  ELSE IF answer.shape # "generated"            \* resp.json()[0]["generated_text"]
    THEN [ok |-> FALSE, text |-> <<>>, resp |-> Unhandled]
  ELSE [ok |-> TRUE, text |-> answer.text, resp |-> Unhandled]

\* str.startswith
StartsWith(s, prefix) ==
  Len(s) >= Len(prefix) /\ SubSeq(s, 1, Len(prefix)) = prefix

\* str.strip()
RECURSIVE LStrip(_)
LStrip(s) == IF s # <<>> /\ Head(s) \in Whitespace THEN LStrip(Tail(s)) ELSE s

RECURSIVE RStrip(_)
RStrip(s) == IF s # <<>> /\ s[Len(s)] \in Whitespace THEN RStrip(Front(s)) ELSE s

Strip(s) == RStrip(LStrip(s))

\* lines 102-104
StripEchoNoTrim(llm_answer, prompt) ==
  IF StartsWith(llm_answer, prompt)
  THEN SubSeq(llm_answer, Len(prompt) + 1, Len(llm_answer))
  ELSE llm_answer

StripEcho(llm_answer, prompt) ==
  IF StartsWith(llm_answer, prompt)
  THEN Strip(SubSeq(llm_answer, Len(prompt) + 1, Len(llm_answer)))
  ELSE llm_answer

\* lines 12-17: get_db yields the connection and closes it in `finally`,
\* whether or not the handler raised
get_db(raised) == 1

\* POST /recommend, lines 95-105
main_app_recommend ==
  \E profile \in UserProfile, dbFails \in BOOLEAN :
    /\ req = NoRequest
    /\ req' = [op |-> "main_app.recommend", body |-> [profile |-> profile]]
    /\ UNCHANGED stores
    /\ target_cal' = 0
    /\ opened' = 1
    /\ closed' = get_db(dbFails)
    /\ IF dbFails
       THEN /\ queried' = "raised" /\ items' = <<>>
            /\ resp' = Unhandled /\ hfLog' = <<>>
       ELSE \E rows \in fetch_affordable_items(profile.daily_budget_egp) :
              /\ queried' = "returned"
              /\ items' = rows
              /\ IF rows = <<>>
                 THEN /\ resp' = ErrorResponse(404, "No menu items within budget")
                      /\ hfLog' = <<>>
                 ELSE LET prompt == build_prompt(profile, rows)
                      IN \E answer \in HFAnswers(prompt) :
                           LET r == call_hf(answer)
                           IN /\ hfLog' = <<[prompt |-> prompt, answer |-> answer]>>
                              /\ resp' = IF r.ok
                                         THEN EmailResponse(StripEcho(r.text, prompt))
                                         ELSE r.resp

\* ========================================================================

\* Both stores are filled by means outside this code.  The two services share
\* nothing, so the initial states vary one store and leave the other empty.
Init ==
  /\ restaurants = {[id |-> 1, name |-> "Falafel House"],
                    [id |-> 2, name |-> "Grill Corner"]}
  /\ restaurant = {[id |-> 1, name |-> "Abou Tarek"]}
  /\ \/ menu_items \in CatalogTables /\ menu_item = {}
     \/ menu_items = {} /\ menu_item \in PlanTables
  /\ req = NoRequest
  /\ resp = NoResponse
  /\ opened = 0
  /\ closed = 0
  /\ queried = "no"
  /\ items = <<>>
  /\ target_cal = 0
  /\ hfLog = <<>>

\* the framework sends the response; the worker takes the next request
respond ==
  /\ req # NoRequest
  /\ req' = NoRequest
  /\ resp' = NoResponse
  /\ opened' = 0
  /\ closed' = 0
  /\ queried' = "no"
  /\ items' = <<>>
  /\ target_cal' = 0
  /\ hfLog' = <<>>
  /\ UNCHANGED stores

Next ==
  \/ respond
  \/ app_recommend
  \/ get_restaurants
  \/ main_app_recommend

Spec == Init /\ [][Next]_vars

\* ========================================================================
\* Properties

IsCatalog == req.op = "app.recommend"
IsPlan    == req.op = "main_app.recommend"

Fields == req.body.f

\* the request's numbers and goal, as the claims read them
Budget == PyFloat(Fields.budget_usd).val
Weight == PyFloat(Fields.weight_kg).val
Goal   == Lower(Fields.goal.s)

\* ---- C1 ----------------------------------------------------------------
\* C1: every item the catalog service's /recommend returns has
\* price_usd <= budget_usd and calories within 200 of
\* compute_target_calories(weight_kg, goal).
C1_ItemsWithinBudgetAndBand ==
  (IsCatalog /\ resp.kind = "items") =>
    LET target == compute_target_calories(Weight, Goal)
    IN \A i \in 1..Len(resp.items) :
         /\ FLe(resp.items[i].price_usd, Budget)
         /\ target - 200 <= resp.items[i].calories
         /\ resp.items[i].calories <= target + 200

\* items are returned, one of them on the upper edge of the band, while the
\* table holds rows that were filtered out
C1_Witness ==
  /\ IsCatalog /\ resp.kind = "items"
  /\ Rows(menu_items) > Len(resp.items)
  /\ \E i \in 1..Len(resp.items) :
       resp.items[i].calories = compute_target_calories(Weight, Goal) + 200

\* ---- C2 ----------------------------------------------------------------
\* C2: when a handler has finished, by whatever path, every session or
\* connection it acquired has been closed.
C2_SessionsReleased == (req # NoRequest) => closed = opened

\* ---- C3 ----------------------------------------------------------------
\* the collaborator answered with a non-success status other than 429
C3_UpstreamFailure ==
  /\ IsPlan /\ hfLog # <<>>
  /\ hfLog[1].answer.shape = "none"
  /\ hfLog[1].answer.status # 429

\* C3 (as claimed): a non-success status other than 429 is reported to the
\* caller with the collaborator's original status code and no email_body.
C3_OriginalStatus ==
  C3_UpstreamFailure =>
    /\ resp.kind = "error"
    /\ resp.status = hfLog[1].answer.status

\* C3 (amended): a non-success status other than 429 is reported to the
\* caller as a generic 500 internal server error, whatever the collaborator's
\* status was, and no email_body is returned.
C3_Generic500 ==
  C3_UpstreamFailure =>
    /\ resp.kind = "error"
    /\ resp.status = 500
    /\ resp.detail = "Internal Server Error"
    /\ resp.email_body = <<>>

\* an upstream 503 surfaced as 500
C3_Witness ==
  C3_UpstreamFailure /\ hfLog[1].answer.status = 503 /\ resp.status = 500

\* ---- C4 ----------------------------------------------------------------
\* C4: when the collaborator answers 429 the endpoint responds with a 429
\* quota-exceeded error, distinct from the generic upstream failure, returns
\* no email_body, and has called the collaborator exactly once.
C4_QuotaExceeded ==
  (IsPlan /\ hfLog # <<>> /\ hfLog[1].answer.status = 429) =>
    /\ resp.kind = "error"
    /\ resp.status = 429
    /\ resp.detail = "HF free-tier token quota exceeded"
    /\ resp # Unhandled
    /\ resp.email_body = <<>>
    /\ Len(hfLog) = 1

C4_Witness ==
  IsPlan /\ Len(hfLog) = 1 /\ hfLog[1].answer.status = 429 /\ resp.status = 429

\* ---- C5 ----------------------------------------------------------------
\* no row of menu_item with a restaurant costs at most the budget
C5_NothingAffordable ==
  \A g \in menu_item : \A r \in restaurant :
    ~(g.row.restaurant_id = {r.id}
      /\ g.row.price_egp <= req.body.profile.daily_budget_egp)

\* C5: when the affordability fetch returns no items the endpoint responds
\* 404 and never calls the collaborator; the collaborator is called only
\* with the prompt built from a non-empty fetched list.
C5_NoItemsNoCall ==
  IsPlan =>
    /\ (queried = "returned" /\ (items = <<>> \/ C5_NothingAffordable)) =>
         (resp.kind = "error" /\ resp.status = 404 /\ hfLog = <<>>)
    /\ hfLog # <<>> =>
         /\ queried = "returned" /\ items # <<>>
         /\ ~C5_NothingAffordable
         /\ \A i \in 1..Len(hfLog) :
              hfLog[i].prompt = build_prompt(req.body.profile, items)

\* the table holds rows, none of them within the budget: 404, no call
C5_Witness ==
  /\ IsPlan /\ queried = "returned" /\ items = <<>>
  /\ \E g \in menu_item : \E r \in restaurant : g.row.restaurant_id = {r.id}
  /\ resp.status = 404 /\ hfLog = <<>>

\* ---- C6 ----------------------------------------------------------------
\* a JSON number, or a string that reads as one
C6_Numeric(v) == v.t = "num" \/ (v.t = "str" /\ v.s = "12.5")

\* gain or lose, in any case
C6_GoalWord(v) == v.t = "str" /\ Lower(v.s) \in {"gain", "lose"}

C6_NumbersGiven ==
  /\ req.body.kind = "object"
  /\ C6_Numeric(Fields.tall_cm)
  /\ C6_Numeric(Fields.weight_kg)
  /\ C6_Numeric(Fields.budget_usd)

\* no body, a required number missing or not numeric, or a goal that is
\* absent or not gain / lose
C6_Malformed == IsCatalog /\ (~C6_NumbersGiven \/ ~C6_GoalWord(Fields.goal))

C6_Rejected ==
  /\ resp.kind = "error"
  /\ resp.status \in 400..499
  /\ resp.items = <<>>
  /\ opened = 0
  /\ queried = "no"

C7_TableRows(prompt) == {i \in 8..(Len(prompt) - 3) : prompt[i] # "\n"}

\* C7: the catalog service's /recommend returns at most 10 items,
\* fetch_affordable_items returns at most 30 items (so the prompt's table
\* has at most 30 rows), each with a price within the requested budget.
C7_ResultCaps ==
  /\ (IsCatalog /\ resp.kind = "items") =>
       /\ Len(resp.items) <= 10
       /\ \A i \in 1..Len(resp.items) : FLe(resp.items[i].price_usd, Budget)
  /\ (IsPlan /\ queried = "returned") =>
       /\ Len(items) <= 30
       /\ \A i \in 1..Len(items) :
            items[i].price <= req.body.profile.daily_budget_egp
  /\ (IsPlan /\ hfLog # <<>>) =>
       /\ Cardinality(C7_TableRows(hfLog[1].prompt)) = Len(items)
       /\ Cardinality(C7_TableRows(hfLog[1].prompt)) <= 30

\* more than 30 affordable rows in the table, 30 of them fetched and rendered
C7_Witness ==
  /\ IsPlan /\ queried = "returned" /\ hfLog # <<>>
  /\ Len(items) = 30
  /\ Rows(Affordable(req.body.profile.daily_budget_egp)) > 30

\* ---- C8 ----------------------------------------------------------------
C8_AllWhitespace(s) == \A i \in 1..Len(s) : s[i] \in {" ", "\n"}

\* b is s without its leading and trailing whitespace
C8_TrimOf(b, s) ==
  /\ \E i \in 0..Len(s) :
       /\ i + Len(b) <= Len(s)
       /\ C8_AllWhitespace(SubSeq(s, 1, i))
       /\ b = SubSeq(s, i + 1, i + Len(b))
       /\ C8_AllWhitespace(SubSeq(s, i + Len(b) + 1, Len(s)))
  /\ b # <<>> => (b[1] \notin {" ", "\n"} /\ b[Len(b)] \notin {" ", "\n"})

C8_Echoed(T, P) == Len(T) >= Len(P) /\ \A i \in 1..Len(P) : T[i] = P[i]

\* C8: if the generated text T starts with the prompt P, email_body is T
\* without P, trimmed of leading and trailing whitespace; otherwise
\* email_body is T unchanged.
C8_EchoStripped ==
  (IsPlan /\ resp.kind = "email") =>
    LET P == hfLog[1].prompt
        T == hfLog[1].answer.text
    IN IF C8_Echoed(T, P)
       THEN C8_TrimOf(resp.email_body, SubSeq(T, Len(P) + 1, Len(T)))
       ELSE resp.email_body = T

\* the prompt echoed, followed by whitespace and text: the text alone is returned
C8_Witness ==
  /\ IsPlan /\ resp.kind = "email"
  /\ hfLog[1].answer.text = hfLog[1].prompt \o <<"\n", "Plan">>
  /\ resp.email_body = <<"Plan">>

\* ---- C9 ----------------------------------------------------------------
\* C9: for the weight of any request, the target for "gain" exceeds the
\* target for "lose" by exactly 1000.
C9_GainMinusLose ==
  (IsCatalog /\ target_cal # 0) =>
    IF Goal = "gain"
    THEN target_cal - compute_target_calories(Weight, "lose") = 1000
    ELSE compute_target_calories(Weight, "gain") - target_cal = 1000

\* ---- C10 ---------------------------------------------------------------
\* C10: when the request supplies a non-null restaurant_id (0 included),
\* every returned item belongs to that restaurant.
C10_OnlyRequestedRestaurant ==
  (IsCatalog /\ resp.kind = "items" /\ Fields.restaurant_id.t # "null") =>
    \A i \in 1..Len(resp.items) :
      resp.items[i].restaurant_id = {Fields.restaurant_id.n.ip}

====
